---------------------------- MODULE Spec2Model ----------------------------
(***************************************************************************)
(* Model of src/src/nexus_cleaner.py: the retention cleaner for docker     *)
(* images held in a Nexus repository manager.                              *)
(*                                                                         *)
(* Timestamps are instants counted in whole days (an ISO string of the     *)
(* remote is represented by the instant datetime.fromisoformat gives it),  *)
(* so that timedelta(days = d) is the integer d.  Python dicts keep        *)
(* insertion order and are modelled as sequences of [name, ...] records.   *)
(* Remote calls are logged in calls, printed outcomes in out.              *)
(*                                                                         *)
(* Not modelled: read_config's parsing of the configuration file (only its *)
(* raising, in Main), logging, and print_full_log (full_info), which only  *)
(* prints.  A remote call fails by a response that is not ok (or, for a    *)
(* GET, a payload that does not parse).                                    *)
(***************************************************************************)
EXTENDS Integers, Sequences, FiniteSets, TLC

VARIABLES
    params,      \* Params(count, days, names, test)
    now,         \* the clock datetime.now(timezone.utc) reads
    pc,          \* position of the run
    exc,         \* exception that ended the run, "" if none
    repos,       \* docker_repos still to process, the current one first
    items,       \* items accumulated by get_repo_assets for the current repo
    cont_token,  \* continuation token of the last page, NoToken if none
    fetched,     \* number of raw items received so far in the run
    sorted_assets,  \* sort_assets(...) of the current repo
    plan,        \* assets_for_del of the current repo
    pi,          \* index of the plan entry delete_old is called with
    pj,          \* index of the asset delete_old is at
    calls,       \* remote calls issued so far
    out,         \* outcomes delete_old printed so far
    planned      \* history: the assets of every plan computed so far, in order

vars == <<params, now, pc, exc, repos, items, cont_token, fetched,
          sorted_assets, plan, pi, pj, calls, out, planned>>

---------------------------------------------------------------------------
(* Bounds of the model *)

MaxCount == 2        \* Params.count ranges over 1..MaxCount in Spec, SpecEngine
MaxDays == 1         \* Params.days ranges over None and 0..MaxDays
MaxVersion == 2      \* version labels 1..MaxVersion
MaxTime == 3         \* timestamps 1..MaxTime
MaxAssets == 2       \* assets per version in SpecAgg
MaxId == 2           \* asset ids in SpecAgg
MaxAggItems == 2     \* raw items of a listing in SpecAgg
MaxEngineItems == 3  \* raw items of a listing, and version labels, in SpecEngine
MaxItems == 4        \* raw items received in one run of Spec
MaxPageLen == 2      \* raw items of one page
MaxFetches == 2      \* listing requests of one run
MaxRepos == 2        \* repositories the enumeration returns

(* Program constant *)
MIN_COUNT_VERSIONS == 10

NoDays == -1         \* Params.days = None
NoToken == 0         \* continuationToken = None
Token == 1           \* a continuation token

ImageNames == {"a", "b"}
RepoNames == {"r1", "r2"}

Max(x, y) == IF x >= y THEN x ELSE y
Min(x, y) == IF x <= y THEN x ELSE y

SeqsUpTo(S, n) == UNION {[1..k -> S] : k \in 0..n}

---------------------------------------------------------------------------
(* Python helpers *)

\* sorted(seq, key = ...): stable and ascending; keys[i] is the key of seq[i].
\* seq[i] lands after every element of smaller key and after the earlier
\* elements of equal key.
Sorted(seq, keys) ==
    LET n == Len(seq)
        pos(i) == Cardinality({j \in 1..n : keys[j] < keys[i]})
                  + Cardinality({j \in 1..i : keys[j] = keys[i]})
    IN  [r \in 1..n |-> seq[CHOOSE i \in 1..n : pos(i) = r]]

\* SliceDropLast with a fault, which the properties below must detect:
\* seq[:-c + 1], the keep window one entry short
SliceDropLastShort(seq, c) == SubSeq(seq, 1, Max(Len(seq) - c + 1, 0))

\* seq[:-c]
SliceDropLast(seq, c) ==
    IF c > 0 THEN SubSeq(seq, 1, Max(Len(seq) - c, 0))
    ELSE IF c = 0 THEN <<>>
    ELSE SubSeq(seq, 1, Min(-c, Len(seq)))

\* [seq[i] for i in range(len(seq)) if i in keep], order preserved
Filter(seq, keep) ==
    LET idx == {i \in 1..Len(seq) : i \in keep}
    IN  [r \in 1..Cardinality(idx) |->
            seq[CHOOSE i \in idx : Cardinality({j \in idx : j <= i}) = r]]

\* bool(params.names): None and [] are both false; names is a set, {} for both
NamesGiven(p) == p.names # {}

\* bool(params.days): None and 0 are both false
DaysGiven(p) == p.days # NoDays /\ p.days # 0

---------------------------------------------------------------------------
(* NexusApi.get_repo_assets, lines 133-136: group the items by name *)

RECURSIVE GroupByName(_)
GroupByName(its) ==
    IF its = <<>> THEN <<>>
    ELSE LET n == Len(its)
             g == GroupByName(SubSeq(its, 1, n - 1))
             one == its[n]
             entry == [version |-> one.version, assets |-> one.assets]
         IN  IF \E i \in 1..Len(g) : g[i].name = one.name
             THEN [i \in 1..Len(g) |->
                     IF g[i].name = one.name
                     THEN [g[i] EXCEPT !.items = Append(@, entry)]
                     ELSE g[i]]
             ELSE Append(g, [name |-> one.name, items |-> <<entry>>])

(* NexusApi.sort_assets *)

\* Selected with a fault, which the properties below must detect:
\* the name filter is not applied
SelectedAll(grouped, p) == grouped

\* the groups the name filter lets through
Selected(grouped, p) ==
    Filter(grouped, {i \in 1..Len(grouped) :
                        ~(NamesGiven(p) /\ grouped[i].name \notin p.names)})

\* sorted(assets, key = lastModified)[-1] of an empty list raises IndexError
SortAssetsRaises(grouped, p) ==
    \E i \in 1..Len(Selected(grouped, p)) :
        \E j \in 1..Len(Selected(grouped, p)[i].items) :
            Selected(grouped, p)[i].items[j].assets = <<>>

\* Latest with a fault, which the properties below must detect:
\* the first asset of the greatest lastModified
LatestFirstMax(assets) ==
    assets[CHOOSE i \in 1..Len(assets) :
              /\ \A j \in 1..Len(assets) : assets[j].lastModified <= assets[i].lastModified
              /\ \A j \in 1..(i - 1) : assets[j].lastModified < assets[i].lastModified]

Latest(assets) ==
    LET s == Sorted(assets, [i \in 1..Len(assets) |-> assets[i].lastModified])
    IN  s[Len(s)]

AssetOf(name, it) ==
    [image_name |-> name, version |-> it.version,
     last_modified |-> Latest(it.assets).lastModified, id |-> Latest(it.assets).id]

SortAssets(grouped, p) ==
    LET sel == Selected(grouped, p)
    IN  [i \in 1..Len(sel) |->
            [name |-> sel[i].name,
             versions |->
                 LET info == [j \in 1..Len(sel[i].items) |->
                                 AssetOf(sel[i].name, sel[i].items[j])]
                 IN  Sorted(info, [j \in 1..Len(info) |-> info[j].last_modified])]]

(* NexusDockerCleaner.prepare_assets_list *)

CompareDateSet(p) == DaysGiven(p)

CompareDate(p, t) == t - p.days

AssetsToDel(name_versions, p, t) ==
    LET cand == SliceDropLast(name_versions, p.count)
    IN  IF CompareDateSet(p)
        THEN Filter(cand, {i \in 1..Len(cand) :
                              cand[i].last_modified < CompareDate(p, t)})
        ELSE cand

PrepareAssetsList(srt, p, t) ==
    LET all == [i \in 1..Len(srt) |->
                   [name |-> srt[i].name, assets |-> AssetsToDel(srt[i].versions, p, t)]]
    IN  Filter(all, {i \in 1..Len(all) : all[i].assets # <<>>})

---------------------------------------------------------------------------
(* The remote and the inputs of a run *)

Now == MaxTime

\* --names is absent, or names the image "a"
NameFilters == {{}, {"a"}}

\* the policies of a run of Spec (days = 0 is days = None to the code, and
\* is drawn in SpecEngine)
ParamsSet ==
    [count : 1..MaxCount, days : {NoDays} \cup 1..MaxDays,
     names : NameFilters, test : BOOLEAN]

\* what /service/rest/v1/repositories/ may answer
RepoRecords == [name : RepoNames, format : {"docker", "maven2"}, type : {"hosted", "proxy"}]

\* every repository is listed once
RepoData ==
    {d \in SeqsUpTo(RepoRecords, MaxRepos) :
        \A i, j \in 1..Len(d) : i # j => d[i].name # d[j].name}

\* a remote call and its answer: ok is response.ok (and the payload parsed),
\* next the continuationToken of a page
Call(op, repo, arg, ok, next) ==
    [op |-> op, repo |-> repo, arg |-> arg, ok |-> ok, next |-> next]

\* ids are the remote's: every component of the catalogue has its own asset
NameIndex(n) == IF n = "a" THEN 0 ELSE 1

IdOf(n, v) == 2 * v - 1 + NameIndex(n)

\* the components a repository of Spec may list: one asset each, modified
\* on the day of its version number, and one component without assets
Catalogue ==
    {[name |-> n, version |-> v,
      assets |-> <<[lastModified |-> v, id |-> IdOf(n, v)]>>] :
        n \in ImageNames, v \in 1..MaxVersion}
    \cup {[name |-> "b", version |-> MaxVersion, assets |-> <<>>]}

Pages == SeqsUpTo(Catalogue, MaxPageLen)

Flatten(pl) ==
    LET RECURSIVE F(_)
        F(k) == IF k = 0 THEN <<>> ELSE F(k - 1) \o pl[k].assets
    IN  F(Len(pl))

ListCalls == Cardinality({i \in 1..Len(calls) : calls[i].op = "list"})

---------------------------------------------------------------------------
(* NexusDockerCleaner.do_delete, one action per remote interaction *)

\* line 164: the for loop moves to the next repository, where get_repo_assets
\* starts from items = [] (line 125), or ends; its is the listing just processed
NextRepo(its) ==
    /\ repos' = Tail(repos)
    /\ pc' = IF Tail(repos) = <<>> THEN "done" ELSE "fetch"
    /\ items' = IF Tail(repos) = <<>> THEN its ELSE <<>>
    /\ cont_token' = NoToken

\* get_docker_repos, the request fails: raise Warning
GetDockerReposFail ==
    /\ pc = "start"
    /\ calls' = Append(calls, Call("repos", "", NoToken, FALSE, NoToken))
    /\ pc' = "raised"
    /\ exc' = "Warning"
    /\ UNCHANGED <<params, now, repos, items, cont_token, fetched,
                   sorted_assets, plan, pi, pj, out, planned>>

DockerHosted(data) ==
    LET sel == Filter(data, {i \in 1..Len(data) :
                                data[i].format = "docker" /\ data[i].type = "hosted"})
    IN  [i \in 1..Len(sel) |-> sel[i].name]

GetDockerReposOk ==
    /\ pc = "start"
    /\ \E data \in RepoData :
        /\ repos' = DockerHosted(data)
        /\ pc' = IF DockerHosted(data) = <<>> THEN "done" ELSE "fetch"
    /\ calls' = Append(calls, Call("repos", "", NoToken, TRUE, NoToken))
    /\ UNCHANGED <<params, now, exc, items, cont_token, fetched,
                   sorted_assets, plan, pi, pj, out, planned>>

\* FetchItemsFail with a fault, which the properties below must detect:
\* a failed page is taken for an empty listing and
\* the run goes on with the next repository
FetchItemsFailIgnored ==
    /\ pc = "fetch"
    /\ ListCalls < MaxFetches
    /\ calls' = Append(calls, Call("list", Head(repos), cont_token, FALSE, NoToken))
    /\ NextRepo(items)
    /\ UNCHANGED <<params, now, exc, fetched, sorted_assets, plan, pi, pj, out, planned>>

\* fetch_items, the request fails: raise Warning
FetchItemsFail ==
    /\ pc = "fetch"
    /\ ListCalls < MaxFetches
    /\ calls' = Append(calls, Call("list", Head(repos), cont_token, FALSE, NoToken))
    /\ pc' = "raised"
    /\ exc' = "Warning"
    /\ UNCHANGED <<params, now, repos, items, cont_token, fetched,
                   sorted_assets, plan, pi, pj, out, planned>>

\* fetch_items answers a page with a continuation token: the loop goes on.
\* MaxFetches and cap bound the listing calls and the items of a run.
FetchPage(pages, cap) ==
    /\ pc = "fetch"
    /\ ListCalls < MaxFetches
    /\ \E page \in pages :
        /\ fetched + Len(page) <= cap
        /\ items' = items \o page
        /\ fetched' = fetched + Len(page)
    /\ cont_token' = Token
    /\ calls' = Append(calls, Call("list", Head(repos), cont_token, TRUE, Token))
    /\ UNCHANGED <<params, now, pc, exc, repos, sorted_assets, plan, pi, pj, out, planned>>

\* the last page (no token), and sort_assets raises IndexError on a version
\* without assets
FetchLastPageRaises(pages, cap) ==
    /\ pc = "fetch"
    /\ ListCalls < MaxFetches
    /\ \E page \in pages :
        /\ fetched + Len(page) <= cap
        /\ SortAssetsRaises(GroupByName(items \o page), params)
        /\ items' = items \o page
        /\ fetched' = fetched + Len(page)
    /\ cont_token' = NoToken
    /\ calls' = Append(calls, Call("list", Head(repos), cont_token, TRUE, NoToken))
    /\ pc' = "raised"
    /\ exc' = "IndexError"
    /\ UNCHANGED <<params, now, repos, sorted_assets, plan, pi, pj, out, planned>>

\* the last page (no token): group, sort_assets, prepare_assets_list, and the
\* loop over assets_for_del.values() starts
FetchLastPage(pages, cap) ==
    /\ pc = "fetch"
    /\ ListCalls < MaxFetches
    /\ \E page \in pages :
        /\ fetched + Len(page) <= cap
        /\ ~SortAssetsRaises(GroupByName(items \o page), params)
        /\ fetched' = fetched + Len(page)
        /\ LET srt == SortAssets(GroupByName(items \o page), params)
               del == PrepareAssetsList(srt, params, now)
           IN  /\ sorted_assets' = srt
               /\ plan' = del
               /\ planned' = planned \o Flatten(del)
               /\ IF del = <<>>
                  THEN NextRepo(items \o page)
                  ELSE /\ pc' = "delete"
                       /\ items' = items \o page
                       /\ cont_token' = NoToken
                       /\ repos' = repos
    /\ pi' = 1
    /\ pj' = 1
    /\ calls' = Append(calls, Call("list", Head(repos), cont_token, TRUE, NoToken))
    /\ UNCHANGED <<params, now, exc, out>>

\* make_delete_request: True if the response is ok, False otherwise
DeleteResult(ok) == IF ok THEN "True" ELSE "False"

\* delete_old moves to the next asset, do_delete to the next list, then repo
Advance ==
    IF pj < Len(plan[pi].assets)
    THEN /\ pj' = pj + 1
         /\ UNCHANGED <<pi, pc, repos, items, cont_token>>
    ELSE IF pi < Len(plan)
    THEN /\ pi' = pi + 1
         /\ pj' = 1
         /\ UNCHANGED <<pc, repos, items, cont_token>>
    ELSE /\ NextRepo(items)
         /\ UNCHANGED <<pi, pj>>

Outcome(one, res) ==
    [image_name |-> one.image_name, version |-> one.version,
     last_modified |-> one.last_modified, res |-> res]

\* TestRun with a fault, which the properties below must detect:
\* the test flag is not read
TestRunIgnored(p) == FALSE

\* AfterDelete with a fault, which the properties below must detect:
\* a failed delete ends the run
AfterDeleteRaises(ok) ==
    IF ok
    THEN Advance
    ELSE /\ pc' = "raised"
         /\ UNCHANGED <<pi, pj, repos, items, cont_token>>

\* line 196: if not self.params.test
TestRun(p) == p.test

\* lines 194-201: whatever res is, the loop goes on
AfterDelete(ok) == Advance

\* delete_old, one iteration, live: a delete request
DeleteOldLive ==
    /\ pc = "delete"
    /\ ~TestRun(params)
    /\ LET one == plan[pi].assets[pj]
       IN  \E ok \in BOOLEAN :
            /\ calls' = Append(calls, Call("delete", Head(repos), one.id, ok, NoToken))
            /\ out' = Append(out, Outcome(one, DeleteResult(ok)))
            /\ AfterDelete(ok)
    /\ UNCHANGED <<params, now, exc, fetched, sorted_assets, plan, planned>>

\* delete_old, one iteration, test run: no request
DeleteOldTest ==
    /\ pc = "delete"
    /\ TestRun(params)
    /\ out' = Append(out, Outcome(plan[pi].assets[pj], "TEST DONE"))
    /\ Advance
    /\ UNCHANGED <<params, now, exc, fetched, sorted_assets, plan, planned, calls>>

InitRest ==
    /\ now = Now
    /\ exc = ""
    /\ repos = <<>>
    /\ cont_token = NoToken
    /\ fetched = 0
    /\ sorted_assets = <<>>
    /\ plan = <<>>
    /\ pi = 1
    /\ pj = 1
    /\ calls = <<>>
    /\ out = <<>>
    /\ planned = <<>>

InitRun ==
    /\ items = <<>>
    /\ InitRest

\* NexusDockerCleaner(params) constructed, do_delete about to run
Init ==
    /\ params \in ParamsSet
    /\ pc = "start"
    /\ InitRun

Next ==
    \/ GetDockerReposFail
    \/ GetDockerReposOk
    \/ FetchItemsFail
    \/ FetchPage(Pages, MaxItems)
    \/ FetchLastPage(Pages, MaxItems)
    \/ FetchLastPageRaises(Pages, MaxItems)
    \/ DeleteOldLive
    \/ DeleteOldTest

Spec == Init /\ [][Next]_vars

---------------------------------------------------------------------------
(* The script, lines 223-227: the arguments are parsed, count is checked,   *)
(* NexusDockerCleaner is constructed (read_config) and do_delete runs.      *)

\* BelowFloor with a fault, which the properties below must detect:
\* the floor is one too low
BelowFloorLow(count) == count < MIN_COUNT_VERSIONS - 1

\* line 225
BelowFloor(count) == count < MIN_COUNT_VERSIONS

\* the parsed arguments of SpecMain
MainArgs ==
    [count : (MIN_COUNT_VERSIONS - 1)..(MIN_COUNT_VERSIONS + 1),
     days : {NoDays} \cup 1..MaxDays, names : NameFilters, test : BOOLEAN]

Main ==
    /\ pc = "main"
    /\ IF BelowFloor(params.count)
       THEN /\ pc' = "raised"
            /\ exc' = "ValueError"
       ELSE \/ /\ pc' = "start"
               /\ exc' = exc
            \/ /\ pc' = "raised"      \* read_config raises
               /\ exc' = "ConfigError"
    /\ UNCHANGED <<params, now, repos, items, cont_token, fetched,
                   sorted_assets, plan, pi, pj, calls, out, planned>>

\* the repository of SpecMain: image "a" in one version more than the floor
MainListing ==
    [v \in 1..(MIN_COUNT_VERSIONS + 1) |->
        [name |-> "a", version |-> v,
         assets |-> <<[lastModified |-> Min(v, MaxTime), id |-> IdOf("a", v)]>>]]

MainPages ==
    {SubSeq(MainListing, 1, n) : n \in {0, MIN_COUNT_VERSIONS, MIN_COUNT_VERSIONS + 1}}

MainCap == Len(MainListing)

InitMain ==
    /\ params \in MainArgs
    /\ pc = "main"
    /\ InitRun

NextMain ==
    \/ Main
    \/ GetDockerReposFail
    \/ GetDockerReposOk
    \/ FetchItemsFail
    \/ FetchPage(MainPages, MainCap)
    \/ FetchLastPage(MainPages, MainCap)
    \/ DeleteOldLive
    \/ DeleteOldTest

SpecMain == InitMain /\ [][NextMain]_vars

---------------------------------------------------------------------------
(* The aggregator alone: get_repo_assets' grouping and sort_assets, on      *)
(* listings whose versions have any assets.                                 *)

RawAssets == [lastModified : 1..MaxTime, id : 1..MaxId]

RawItems ==
    [name : ImageNames, version : 1..MaxVersion, assets : SeqsUpTo(RawAssets, MaxAssets)]

AggParams ==
    [count : {MIN_COUNT_VERSIONS}, days : {NoDays}, names : NameFilters, test : {FALSE}]

InitAgg ==
    /\ params \in AggParams
    /\ items \in SeqsUpTo(RawItems, MaxAggItems)
    /\ pc = "agg"
    /\ InitRest

Aggregate ==
    /\ pc = "agg"
    /\ ~SortAssetsRaises(GroupByName(items), params)
    /\ sorted_assets' = SortAssets(GroupByName(items), params)
    /\ pc' = "sorted"
    /\ UNCHANGED <<params, now, exc, repos, items, cont_token, fetched,
                   plan, pi, pj, calls, out, planned>>

AggregateRaises ==
    /\ pc = "agg"
    /\ SortAssetsRaises(GroupByName(items), params)
    /\ pc' = "raised"
    /\ exc' = "IndexError"
    /\ UNCHANGED <<params, now, repos, items, cont_token, fetched,
                   sorted_assets, plan, pi, pj, calls, out, planned>>

NextAgg ==
    \/ Aggregate
    \/ AggregateRaises

SpecAgg == InitAgg /\ [][NextAgg]_vars

---------------------------------------------------------------------------
(* The decision engine alone: sort_assets then prepare_assets_list, on      *)
(* listings of versions with one asset of any timestamp.                    *)

EngineItems ==
    {[name |-> n, version |-> v, assets |-> <<[lastModified |-> t, id |-> IdOf(n, v)]>>] :
        n \in ImageNames, v \in 1..MaxEngineItems, t \in 1..MaxTime}

EngineParams ==
    [count : 1..MaxCount, days : {NoDays} \cup 0..MaxDays,
     names : NameFilters, test : {FALSE}]

InitEngine ==
    /\ params \in EngineParams
    /\ items \in SeqsUpTo(EngineItems, MaxEngineItems)
    /\ pc = "engine"
    /\ InitRest

Engine ==
    /\ pc = "engine"
    /\ sorted_assets' = SortAssets(GroupByName(items), params)
    /\ plan' = PrepareAssetsList(SortAssets(GroupByName(items), params), params, now)
    /\ pc' = "planned"
    /\ UNCHANGED <<params, now, exc, repos, items, cont_token, fetched,
                   pi, pj, calls, out, planned>>

NextEngine == Engine

SpecEngine == InitEngine /\ [][NextEngine]_vars

---------------------------------------------------------------------------
(* Vocabulary of the properties *)

Range(seq) == {seq[i] : i \in 1..Len(seq)}

\* the last k entries of a sorted list: the keep window
KeepWindow(vs, k) == {i \in 1..Len(vs) : i > Len(vs) - k}

\* the entries before the keep window: the candidates
Candidates(vs, k) == {i \in 1..Len(vs) : i <= Len(vs) - k}

\* the assets the current plan holds for a name
PlanOf(name) == UNION {Range(plan[e].assets) : e \in {x \in 1..Len(plan) : plan[x].name = name}}

DeleteCalls == {i \in 1..Len(calls) : calls[i].op = "delete"}

\* the delete calls issued for the current plan: those after the last listing
DeletesOfPlan ==
    {i \in DeleteCalls : \A j \in (i + 1)..Len(calls) : calls[j].op = "delete"}

Ascending(vs) ==
    \A i, j \in 1..Len(vs) : i < j => vs[i].last_modified <= vs[j].last_modified

MaxTs(assets) ==
    CHOOSE t \in {assets[i].lastModified : i \in 1..Len(assets)} :
        \A i \in 1..Len(assets) : assets[i].lastModified <= t

AtMax(assets) == {i \in 1..Len(assets) : assets[i].lastModified = MaxTs(assets)}

FirstAtMax(assets) == CHOOSE i \in AtMax(assets) : \A j \in AtMax(assets) : i <= j

LastAtMax(assets) == CHOOSE i \in AtMax(assets) : \A j \in AtMax(assets) : j <= i

\* the raw items of the listing that sort_assets does not skip
Listed == {i \in 1..Len(items) : ~(NamesGiven(params) /\ items[i].name \notin params.names)}

Records == UNION {Range(sorted_assets[g].versions) : g \in 1..Len(sorted_assets)}

---------------------------------------------------------------------------
(* C1: keep-window safety.  For every name of the listing and every policy  *)
(* with count = k >= 1, none of the last k entries of the name's sorted     *)
(* list is in the deletion plan, no delete call is issued for the handle of *)
(* one of them, and a name with n <= k entries has no plan entry.           *)
(* Refuted by a listing that repeats a (name, version) pair (see C6): the   *)
(* repeated record is both a candidate and in the keep window.              *)
C1_KeepWindowSafe ==
    \A g \in 1..Len(sorted_assets) :
        LET vs == sorted_assets[g].versions
            name == sorted_assets[g].name
        IN  /\ \A i \in KeepWindow(vs, params.count) :
                /\ vs[i] \notin PlanOf(name)
                /\ \A c \in DeletesOfPlan : calls[c].arg # vs[i].id
            /\ Len(vs) <= params.count => PlanOf(name) = {}

---------------------------------------------------------------------------
(* C2: count-only mode.  With no age cutoff (days is None) and a name of    *)
(* n > k entries, sorted ascending by last_modified, the plan holds for the *)
(* name exactly the prefix of the n - k oldest entries, in the same order;  *)
(* a name with n <= k entries has no plan entry.                            *)
C2_CountOnlyPrefix ==
    (pc = "planned" /\ params.days = NoDays) =>
        /\ \A g \in 1..Len(sorted_assets) :
            LET vs == sorted_assets[g].versions
                name == sorted_assets[g].name
                n == Len(vs)
                k == params.count
                entries == {e \in 1..Len(plan) : plan[e].name = name}
            IN  /\ Ascending(vs)
                /\ n > k => /\ Cardinality(entries) = 1
                            /\ \A e \in entries : plan[e].assets = SubSeq(vs, 1, n - k)
                /\ n <= k => entries = {}
        /\ \A e \in 1..Len(plan) :
            \E g \in 1..Len(sorted_assets) : sorted_assets[g].name = plan[e].name

\* a name of n >= k + 2 distinct versions has been planned without a cutoff
C2_Witness ==
    /\ pc = "planned"
    /\ params.days = NoDays
    /\ \E g \in 1..Len(sorted_assets) :
        /\ Len(sorted_assets[g].versions) >= params.count + 2
        /\ \A i, j \in 1..Len(sorted_assets[g].versions) :
            i # j => sorted_assets[g].versions[i].version # sorted_assets[g].versions[j].version
        /\ \E e \in 1..Len(plan) :
            /\ plan[e].name = sorted_assets[g].name
            /\ Len(plan[e].assets) >= 2

---------------------------------------------------------------------------
(* C3: age-cutoff mode.  For every days = d >= 0 that is supplied, a        *)
(* candidate (an entry before the keep window) is in the plan if and only   *)
(* if its last_modified is strictly older than now - d.                     *)
(* Refuted at d = 0: line 179 takes days = 0 for no cutoff.                 *)
C3_CutoffIff ==
    (pc = "planned" /\ params.days \in 0..MaxDays) =>
        \A g \in 1..Len(sorted_assets) :
            LET vs == sorted_assets[g].versions
                name == sorted_assets[g].name
            IN  \A i \in Candidates(vs, params.count) :
                    vs[i] \in PlanOf(name) <=> vs[i].last_modified < now - params.days

---------------------------------------------------------------------------
(* C4: name filter.  When names is given, no asset of an image outside      *)
(* names is ever planned and no delete call is ever issued for a handle of  *)
(* such an image.                                                           *)
C4_NameFilter ==
    NamesGiven(params) =>
        /\ \A i \in 1..Len(planned) : planned[i].image_name \in params.names
        /\ \A e \in 1..Len(plan) : plan[e].name \in params.names
        /\ \A c \in DeleteCalls :
            calls[c].arg \notin {IdOf(n, v) : n \in ImageNames \ params.names,
                                              v \in 1..MaxVersion}

\* an image outside names has more than count versions listed, and the
\* repository's plan has been executed
C4_Witness ==
    /\ NamesGiven(params)
    /\ pc = "done"
    /\ \E n \in ImageNames \ params.names :
        Cardinality({items[i].version :
                        i \in {x \in 1..Len(items) :
                                  items[x].name = n /\ items[x].assets # <<>>}})
            > params.count
    /\ \E c \in DeleteCalls : calls[c].ok

---------------------------------------------------------------------------
(* C5: aggregation.  Every listed version gives a record whose              *)
(* last_modified is the maximum lastModified of its assets and whose id is  *)
(* the id of the FIRST asset, in received order, that has this maximum.     *)
(* Refuted: sorted(...)[-1] is the last such asset.                         *)
C5_FirstMaxWins ==
    pc = "sorted" =>
        /\ \A i \in Listed :
            \E r \in Records :
                /\ r.image_name = items[i].name
                /\ r.version = items[i].version
                /\ r.last_modified = MaxTs(items[i].assets)
                /\ r.id = items[i].assets[FirstAtMax(items[i].assets)].id
        /\ \A r \in Records :
            \E i \in Listed :
                /\ r.image_name = items[i].name
                /\ r.version = items[i].version
                /\ r.last_modified = MaxTs(items[i].assets)
                /\ r.id = items[i].assets[FirstAtMax(items[i].assets)].id

(* C5 amended: ... and whose id is the id of the LAST asset, in received    *)
(* order, that has this maximum.                                            *)
C5_LastMaxWins ==
    pc = "sorted" =>
        /\ \A i \in Listed :
            \E r \in Records :
                /\ r.image_name = items[i].name
                /\ r.version = items[i].version
                /\ r.last_modified = MaxTs(items[i].assets)
                /\ r.id = items[i].assets[LastAtMax(items[i].assets)].id
        /\ \A r \in Records :
            \E i \in Listed :
                /\ r.image_name = items[i].name
                /\ r.version = items[i].version
                /\ r.last_modified = MaxTs(items[i].assets)
                /\ r.id = items[i].assets[LastAtMax(items[i].assets)].id

\* a listed version with two assets of the same, maximal, lastModified and
\* different ids has been aggregated
C5_Witness ==
    /\ pc = "sorted"
    /\ \E i \in Listed :
        /\ Cardinality(AtMax(items[i].assets)) >= 2
        /\ items[i].assets[FirstAtMax(items[i].assets)].id
             # items[i].assets[LastAtMax(items[i].assets)].id

---------------------------------------------------------------------------
(* C6: one record per version.  Whatever the listing, items repeating a     *)
(* (name, version) pair included, the aggregated group of every listed name *)
(* holds exactly one record per distinct version of the name.               *)
(* Refuted: every raw item gives a record.                                  *)
C6_OneRecordPerVersion ==
    pc = "sorted" =>
        /\ \A g \in 1..Len(sorted_assets) :
            Len(sorted_assets[g].versions) =
                Cardinality({items[i].version :
                                i \in {x \in Listed : items[x].name = sorted_assets[g].name}})
        /\ \A i \in Listed : \E g \in 1..Len(sorted_assets) :
            sorted_assets[g].name = items[i].name

---------------------------------------------------------------------------
(* C7: count floor.  Started from the script, a run whose count is below    *)
(* MIN_COUNT_VERSIONS ends with ValueError before any remote call, so every *)
(* run that issues a remote call has count >= MIN_COUNT_VERSIONS.           *)
C7_CountFloor ==
    /\ calls # <<>> => params.count >= MIN_COUNT_VERSIONS
    /\ (params.count < MIN_COUNT_VERSIONS /\ pc # "main") =>
            (pc = "raised" /\ exc = "ValueError" /\ calls = <<>> /\ out = <<>>)

\* a count below the floor has been rejected
C7_Witness ==
    /\ params.count < MIN_COUNT_VERSIONS
    /\ pc = "raised"
    /\ exc = "ValueError"

---------------------------------------------------------------------------
(* C8: dry run.  In a test run no delete request is ever sent; every        *)
(* planned asset gets the outcome "TEST DONE", in plan order; and the plan  *)
(* is the one the same listing gives a live run.                            *)
C8_DryRun ==
    params.test =>
        /\ DeleteCalls = {}
        /\ Len(out) <= Len(planned)
        /\ \A i \in 1..Len(out) :
            out[i] = Outcome(planned[i], "TEST DONE")
        /\ pc # "delete" => Len(out) = Len(planned)
        /\ pc \in {"delete", "done"} =>
            LET live == [params EXCEPT !.test = FALSE]
            IN  /\ sorted_assets = SortAssets(GroupByName(items), live)
                /\ plan = PrepareAssetsList(sorted_assets, live, now)

\* a test run has ended after outcomes for two planned assets
C8_Witness ==
    /\ params.test
    /\ pc = "done"
    /\ Len(out) >= 2
    /\ Len(calls) >= 2

---------------------------------------------------------------------------
(* C9: live run, partial failure.  One delete call per planned asset, in    *)
(* plan order (oldest first within a name), with the asset's id; a failed   *)
(* delete ends nothing: when the run is not inside the delete loop every    *)
(* planned asset has had its call, and the i-th outcome is reported for the *)
(* i-th planned asset with the answer of its call.                          *)
C9_EveryPlannedDeleted ==
    ~params.test =>
        /\ Cardinality(DeleteCalls) = Len(out)
        /\ Len(out) <= Len(planned)
        /\ \A c \in DeleteCalls :
            LET i == Cardinality({d \in DeleteCalls : d <= c})
            IN  /\ calls[c].arg = planned[i].id
                /\ out[i] = Outcome(planned[i], DeleteResult(calls[c].ok))
        /\ pc # "delete" => Len(out) = Len(planned)
        /\ \A e \in 1..Len(plan) : Ascending(plan[e].assets)

\* a delete failed and the asset of another name was deleted after it
C9_Witness ==
    /\ ~params.test
    /\ pc = "done"
    /\ \E i, j \in 1..Len(out) :
        /\ i < j
        /\ out[i].res = "False"
        /\ out[j].image_name # out[i].image_name
        /\ out[j].res = "True"

---------------------------------------------------------------------------
(* C10: a failed listing is fatal.  A delete call follows, with only delete *)
(* calls between, a successful page of the same repository that carried no  *)
(* continuation token; every listing call carries the token of the page     *)
(* before it; a failed listing or enumeration call is the last call of the  *)
(* run, which ends with Warning, and no delete call was issued for its      *)
(* repository.                                                              *)
C10_ListingFailureFatal ==
    /\ \A c \in DeleteCalls :
        \E l \in 1..(c - 1) :
            /\ calls[l].op = "list"
            /\ calls[l].ok
            /\ calls[l].next = NoToken
            /\ calls[l].repo = calls[c].repo
            /\ \A m \in (l + 1)..(c - 1) : calls[m].op = "delete"
    /\ \A l \in 2..Len(calls) :
        calls[l].op = "list" =>
            IF calls[l - 1].op = "list" /\ calls[l - 1].next # NoToken
            THEN calls[l].arg = calls[l - 1].next /\ calls[l].repo = calls[l - 1].repo
            ELSE calls[l].arg = NoToken
    /\ \A l \in 1..Len(calls) :
        (calls[l].op # "delete" /\ ~calls[l].ok) =>
            /\ l = Len(calls)
            /\ pc = "raised"
            /\ exc = "Warning"
            /\ \A c \in DeleteCalls : calls[c].repo # calls[l].repo

\* the second page of a repository failed after a first page that listed
\* more than count versions of an image
C10_Witness ==
    /\ pc = "raised"
    /\ Len(calls) = 3
    /\ calls[2].op = "list" /\ calls[2].ok /\ calls[2].next = Token
    /\ calls[3].op = "list" /\ ~calls[3].ok
    /\ Len(items) > params.count
    /\ \A i \in 1..Len(items) : items[i].name = "a"
    /\ ~NamesGiven(params)

===========================================================================
